---- MODULE Spec2Model ----
(***************************************************************************)
(* A model of src/src/helpers.h: the waypoint coordinate system            *)
(* (ClosestWaypoint, NextWaypoint, getFrenet, getXY) and the lane-change   *)
(* safety check (getTheta, safeToChangeLane).                              *)
(*                                                                         *)
(* Numbers.  Positions and arc lengths are whole metres.  Every polyline   *)
(* of the model is made of axis-parallel segments, so every projection,    *)
(* every segment length and every sqrt the code takes is a whole number    *)
(* and is computed exactly.  Speeds along the lane (car_speed,             *)
(* relative_speed) and the safety distance are kept in tenths (22.3 m/s is *)
(* 223), because the code's constant 22.3 is not a whole number.           *)
(*                                                                         *)
(* Angles.  An angle is a whole number of sixteenths of a turn (22.5       *)
(* degrees): pi is 8 and pi/2 is 4.  atan2 and acos are exact on the eight *)
(* compass directions (even values) and give the odd value in the middle   *)
(* of the octant for every direction strictly inside an octant.  Every     *)
(* theta of the model is a compass direction, so each comparison of an     *)
(* angle with pi/2 has the outcome it has over the reals.                  *)
(*                                                                         *)
(* A double that may be NaN is a record [nan, v].  A quotient of doubles   *)
(* is kept as the pair of its numerator and denominator and compared as    *)
(* IEEE-754 compares it (x/0 is an infinity, 0/0 is NaN, every comparison  *)
(* with NaN is false).                                                     *)
(***************************************************************************)
EXTENDS Integers, Sequences, FiniteSets, TLC

VARIABLES
    maps_x, maps_y, maps_s,   \* the waypoint polyline and its arc lengths
    pc,                       \* position in the function under execution
    x, y, theta,              \* Cartesian arguments (theta: a double)
    s, d,                     \* Frenet arguments
    i, closestLen, closestWaypoint,   \* locals of ClosestWaypoint / loop index
    prev_wp, reads,           \* getXY: scan position, indices read so far
    lane_sensor_fusion, car_s, car_speed, delta_t,   \* safeToChangeLane args
    safe_to_change_lane, time_to_collision,          \* its locals
    ret, ret2                 \* value returned (ret2: of the second call)

vars == <<maps_x, maps_y, maps_s, pc, x, y, theta, s, d, i, closestLen,
          closestWaypoint, prev_wp, reads, lane_sensor_fusion, car_s,
          car_speed, delta_t, safe_to_change_lane, time_to_collision,
          ret, ret2>>

-----------------------------------------------------------------------------
(* Bounds of the model *)

\* longest straight polyline (number of waypoints)
MaxWp == 3
\* longest obstacle list handed to safeToChangeLane
MaxCars == 2

-----------------------------------------------------------------------------
(* Arithmetic *)

Abs(a) == IF a < 0 THEN -a ELSE a

Min(a, b) == IF b < a THEN b ELSE a

RECURSIVE SqrtIn(_, _, _)
\* the largest r in lo..hi with r * r <= n, by bisection
SqrtIn(n, lo, hi) ==
    IF lo = hi THEN lo
    ELSE LET mid == (lo + hi + 1) \div 2
         IN  IF mid * mid <= n THEN SqrtIn(n, mid, hi) ELSE SqrtIn(n, lo, mid - 1)

\* sqrt on a perfect square (the only squares the axis-parallel model takes)
Sqrt(n) == SqrtIn(n, 0, Min(n, 46340))

\* a double that may be NaN
Num(v) == [nan |-> FALSE, v |-> v]
NaN == [nan |-> TRUE, v |-> 0]

\* pi(), in sixteenths of a turn
pi == 8

\* atan2(dy, dx): exact on the compass directions, mid-octant otherwise
atan2(dy, dx) ==
    CASE dy = 0 /\ dx >= 0 -> 0
      [] dy = 0 /\ dx < 0 -> 8
      [] dx = 0 /\ dy > 0 -> 4
      [] dx = 0 /\ dy < 0 -> -4
      [] dy > 0 /\ dx > 0 -> IF dy = dx THEN 2 ELSE IF dy < dx THEN 1 ELSE 3
      [] dy > 0 /\ dx < 0 -> IF dy = -dx THEN 6 ELSE IF dy < -dx THEN 7 ELSE 5
      [] dy < 0 /\ dx > 0 -> IF -dy = dx THEN -2 ELSE IF -dy < dx THEN -1 ELSE -3
      [] dy < 0 /\ dx < 0 -> IF dy = dx THEN -6 ELSE IF -dy < -dx THEN -7 ELSE -5

\* acos(num/den) for den >= 0; 0/0 is NaN and acos(NaN) is NaN
acos(num, den) ==
    IF den = 0 THEN NaN
    ELSE Num(CASE num = den -> 0
               [] num = 0 -> 4
               [] num = -den -> 8
               [] num > 0 /\ num < den ->
                    IF 2 * num * num = den * den THEN 2
                    ELSE IF 2 * num * num > den * den THEN 1 ELSE 3
               [] num < 0 /\ -num < den ->
                    IF 2 * num * num = den * den THEN 6
                    ELSE IF 2 * num * num > den * den THEN 7 ELSE 5)

\* cos and sin of a multiple of pi/2 (every segment is axis-parallel)
cos(a) == CASE a % 16 = 0 -> 1
            [] a % 16 = 4 -> 0
            [] a % 16 = 8 -> -1
            [] a % 16 = 12 -> 0

sin(a) == CASE a % 16 = 0 -> 0
            [] a % 16 = 4 -> 1
            [] a % 16 = 8 -> 0
            [] a % 16 = 12 -> -1

\* distance(x1,y1,x2,y2), helpers.h:40
distance(x1, y1, x2, y2) ==
    Sqrt((x2 - x1) * (x2 - x1) + (y2 - y1) * (y2 - y1))

\* The square of distance(x1,y1,x2,y2) as <<hi, lo>> = hi * 10^6 + lo, so that
\* distances beyond 46 km are compared exactly (sqrt is monotone).
distanceSq(x1, y1, x2, y2) ==
    LET ax == Abs(x2 - x1)
        ay == Abs(y2 - y1)
        a1 == ax \div 1000
        b1 == ax % 1000
        a2 == ay \div 1000
        b2 == ay % 1000
        r  == 2000 * (a1 * b1 + a2 * b2) + b1 * b1 + b2 * b2
    IN  <<a1 * a1 + a2 * a2 + r \div 1000000, r % 1000000>>

SqLess(p, q) == p[1] < q[1] \/ (p[1] = q[1] /\ p[2] < q[2])

\* double closestLen = 100000, helpers.h:47, squared: 10^10 = 10000 * 10^6
closestLenInit == <<10000, 0>>

-----------------------------------------------------------------------------
(* Waypoint arrays: the code's indices are 0-based *)

At(arr, k) == arr[k + 1]

Size(arr) == Len(arr)

-----------------------------------------------------------------------------
(* ClosestWaypoint, helpers.h:45-61 *)

\* the loop's locals before the first iteration
CWInit == [i |-> 0, closestLen |-> closestLenInit, closestWaypoint |-> 0]

\* if (dist < closestLen) at helpers.h:54
CWCloser(dist, len) == SqLess(dist, len)

\* one iteration of the for loop at helpers.h:50-58
CWBody(st, px, py, mx, my) ==
    LET dist == distanceSq(px, py, At(mx, st.i), At(my, st.i))
    IN  IF CWCloser(dist, st.closestLen)
        THEN [i |-> st.i + 1, closestLen |-> dist, closestWaypoint |-> st.i]
        ELSE [st EXCEPT !.i = st.i + 1]

RECURSIVE CWRun(_, _, _, _, _)
CWRun(st, px, py, mx, my) ==
    IF st.i < Size(mx) THEN CWRun(CWBody(st, px, py, mx, my), px, py, mx, my)
    ELSE st.closestWaypoint

ClosestWaypoint(px, py, mx, my) == CWRun(CWInit, px, py, mx, my)

-----------------------------------------------------------------------------
(* NextWaypoint, helpers.h:64-84 *)

\* angle = fabs(theta-heading); angle = std::min(2*pi() - angle, angle)
NWAngle(th, heading) ==
    IF th.nan THEN NaN
    ELSE LET angle == Abs(th.v - heading)
         IN  Num(Min(2 * pi - angle, angle))

\* if (angle > pi()/2): false when angle is NaN
NWBehind(angle) == ~angle.nan /\ angle.v > pi \div 2

\* helpers.h:68-83 once the closest waypoint c is known
NWFromClosest(c, px, py, th, mx, my) ==
    IF NWBehind(NWAngle(th, atan2(At(my, c) - py, At(mx, c) - px)))
    THEN (IF c + 1 = Size(mx) THEN 0 ELSE c + 1)
    ELSE c

NextWaypoint(px, py, th, mx, my) ==
    NWFromClosest(ClosestWaypoint(px, py, mx, my), px, py, th, mx, my)

-----------------------------------------------------------------------------
(* getFrenet, helpers.h:87-129 *)

\* the reference point of the sign of d, helpers.h:111-112
center_ref_x == 1000
center_ref_y == 2000

RECURSIVE ArcLength(_, _, _)
\* the loop at helpers.h:122-124: the sum of the first k segment lengths
ArcLength(k, mx, my) ==
    IF k = 0 THEN 0
    ELSE ArcLength(k - 1, mx, my)
         + distance(At(mx, k - 1), At(my, k - 1), At(mx, k), At(my, k))

\* FrenetSign with the comparison made strict
FrenetSignStrict(centerToPos2, centerToRef2, frenet_d) ==
    IF centerToPos2 < centerToRef2 THEN -frenet_d ELSE frenet_d

\* if (centerToPos <= centerToRef) frenet_d *= -1, helpers.h:116-118
FrenetSign(centerToPos2, centerToRef2, frenet_d) ==
    IF centerToPos2 <= centerToRef2 THEN -frenet_d ELSE frenet_d

\* helpers.h:104-128 in the frame of waypoint prev_wp: (n_x, n_y) is the
\* segment, (x_x, x_y) the position, (center_x, center_y) the reference point
\* and arc the arc length of prev_wp.  proj_norm = dot / nn and
\* proj = proj_norm * n are exact, n being axis-parallel; the two distances to
\* the reference point are compared by their squares.
FrenetProject(n_x, n_y, x_x, x_y, center_x, center_y, arc) ==
    LET dot == x_x * n_x + x_y * n_y
        nn  == n_x * n_x + n_y * n_y
        proj_x == (dot * n_x) \div nn
        proj_y == (dot * n_y) \div nn
        centerToPos2 == (center_x - x_x) * (center_x - x_x)
                        + (center_y - x_y) * (center_y - x_y)
        centerToRef2 == (center_x - proj_x) * (center_x - proj_x)
                        + (center_y - proj_y) * (center_y - proj_y)
    IN  <<arc + distance(0, 0, proj_x, proj_y),
          FrenetSign(centerToPos2, centerToRef2,
                     distance(x_x, x_y, proj_x, proj_y))>>

\* helpers.h:98-128 for the segment from prev_wp0 to next_wp
FrenetOnSegment(px, py, prev_wp0, next_wp, mx, my) ==
    FrenetProject(At(mx, next_wp) - At(mx, prev_wp0),
                  At(my, next_wp) - At(my, prev_wp0),
                  px - At(mx, prev_wp0),
                  py - At(my, prev_wp0),
                  center_ref_x - At(mx, prev_wp0),
                  center_ref_y - At(my, prev_wp0),
                  ArcLength(prev_wp0, mx, my))

\* helpers.h:92-96: prev_wp = next_wp-1, or the last index when next_wp == 0
FrenetFromNext(px, py, next_wp, mx, my) ==
    FrenetOnSegment(px, py,
                    IF next_wp = 0 THEN Size(mx) - 1 ELSE next_wp - 1,
                    next_wp, mx, my)

getFrenet(px, py, th, mx, my) ==
    FrenetFromNext(px, py, NextWaypoint(px, py, th, mx, my), mx, my)

-----------------------------------------------------------------------------
(* getXY, helpers.h:132-157 *)

InRange(k, arr) == 0 <= k /\ k < Size(arr)

\* The while condition at helpers.h:137.  maps_s[prev_wp+1] is read first; when
\* prev_wp+1 = size the read is out of bounds, but the right operand is false
\* then, so the condition is false whatever value comes back.
XYScanCond(fs, prev, ms) ==
    /\ prev < Size(ms) - 1
    /\ fs > At(ms, prev + 1)

RECURSIVE XYScan(_, _, _)
\* the value of prev_wp when the while loop ends
XYScan(fs, prev, ms) ==
    IF XYScanCond(fs, prev, ms) THEN XYScan(fs, prev + 1, ms) ELSE prev

\* the indices of maps_s the while loop reads: prev_wp+1 at every evaluation
XYScanReads(fs, ms) == 0 .. (XYScan(fs, -1, ms) + 1)

\* helpers.h:141-156 for a prev_wp inside the arrays
XYPoint(fs, fd, prev, ms, mx, my) ==
    LET wp2 == (prev + 1) % Size(mx)
        heading == atan2(At(my, wp2) - At(my, prev), At(mx, wp2) - At(mx, prev))
        seg_s == fs - At(ms, prev)
        seg_x == At(mx, prev) + seg_s * cos(heading)
        seg_y == At(my, prev) + seg_s * sin(heading)
        perp_heading == heading - pi \div 2
    IN  <<seg_x + fd * cos(perp_heading), seg_y + fd * sin(perp_heading)>>

\* the indices helpers.h:141-156 read in maps_x, maps_y and maps_s
XYPointReads(prev, mx) == {prev, (prev + 1) % Size(mx)}

\* what a read outside an array may give back
Unspecified == {-1, 0, 1}

\* the points helpers.h:141-156 may return: with prev_wp = -1 the three reads
\* of maps_x[-1], maps_y[-1], maps_s[-1] are undefined
XYPoints(fs, fd, prev, ms, mx, my) ==
    IF InRange(prev, mx) THEN {XYPoint(fs, fd, prev, ms, mx, my)}
    ELSE {<<gx, gy>> : gx \in Unspecified, gy \in Unspecified}

\* every value a call getXY(s, d, maps_s, maps_x, maps_y) may return
getXY(fs, fd, ms, mx, my) == XYPoints(fs, fd, XYScan(fs, -1, ms), ms, mx, my)

\* the call touches memory outside the arrays (and may therefore also crash)
XYOutOfBounds(fs, ms, mx) ==
    LET prev == XYScan(fs, -1, ms)
    IN  \E k \in XYScanReads(fs, ms) \cup XYPointReads(prev, mx) : ~InRange(k, ms)

-----------------------------------------------------------------------------
(* Polylines of the model *)

Poly(mx, my, ms) == [x |-> mx, y |-> my, s |-> ms]

\* n collinear waypoints from (ox, oy), len apart, running in direction
\* dir (0: +x, 1: +y, 2: -x, 3: -y), with their cumulative arc lengths
Straight(ox, oy, dir, len, n) ==
    Poly([k \in 1..n |-> ox + (k - 1) * len * cos(4 * dir)],
         [k \in 1..n |-> oy + (k - 1) * len * sin(4 * dir)],
         [k \in 1..n |-> (k - 1) * len])

\* a closed square course of side len from (ox, oy), counter-clockwise
Square(ox, oy, len) ==
    Poly(<<ox, ox + len, ox + len, ox>>,
         <<oy, oy, oy + len, oy + len>>,
         <<0, len, 2 * len, 3 * len>>)

\* the variables a call does not use
NoCartesian == x = 0 /\ y = 0 /\ theta = Num(0)
NoFrenet == s = 0 /\ d = 0
NoClosest == i = 0 /\ closestLen = closestLenInit /\ closestWaypoint = 0
NoScan == prev_wp = -1 /\ reads = {}
NoSafe ==
    /\ lane_sensor_fusion = <<>> /\ car_s = 0 /\ car_speed = 0 /\ delta_t = 3
    /\ safe_to_change_lane = TRUE
    /\ time_to_collision = [num |-> 0, den |-> 1]
NoResult == ret = <<>> /\ ret2 = <<>>

mapVars == <<maps_x, maps_y, maps_s>>
cartVars == <<x, y, theta>>
frenetVars == <<s, d>>
closestVars == <<i, closestLen, closestWaypoint>>
scanVars == <<prev_wp, reads>>
safeArgs == <<lane_sensor_fusion, car_s, car_speed, delta_t>>
safeVars == <<lane_sensor_fusion, car_s, car_speed, delta_t,
              safe_to_change_lane, time_to_collision>>

-----------------------------------------------------------------------------
(* SpecCW: a call of ClosestWaypoint, one loop iteration per step *)

CWPoints == {<<0, 0>>, <<30, 0>>, <<30, 30>>}

CWQueryX == {0, 15, 40, 150000}
CWQueryY == {0, 15, 150000}

\* every non-empty polyline of at most MaxWp of the points
CWPolylines ==
    UNION {[1..n -> CWPoints] : n \in 1..MaxWp}

InitCW ==
    /\ \E pts \in CWPolylines :
         /\ maps_x = [k \in DOMAIN pts |-> pts[k][1]]
         /\ maps_y = [k \in DOMAIN pts |-> pts[k][2]]
    /\ maps_s = <<>>
    /\ x \in CWQueryX /\ y \in CWQueryY /\ theta = Num(0)
    /\ pc = "cw_loop"
    /\ NoClosest /\ NoFrenet /\ NoScan /\ NoSafe /\ NoResult

\* for (int i = 0; i < maps_x.size(); ++i) { ... }
CWIterate ==
    /\ pc = "cw_loop"
    /\ i < Size(maps_x)
    /\ LET st == CWBody([i |-> i, closestLen |-> closestLen,
                         closestWaypoint |-> closestWaypoint],
                        x, y, maps_x, maps_y)
       IN  /\ i' = st.i
           /\ closestLen' = st.closestLen
           /\ closestWaypoint' = st.closestWaypoint
    /\ UNCHANGED <<mapVars, pc, cartVars, frenetVars, scanVars, safeVars,
                   ret, ret2>>

\* return closestWaypoint;
CWReturn ==
    /\ pc = "cw_loop"
    /\ i >= Size(maps_x)
    /\ ret' = closestWaypoint
    /\ pc' = "done"
    /\ UNCHANGED <<mapVars, cartVars, frenetVars, closestVars, scanVars,
                   safeVars, ret2>>

NextCW == CWIterate \/ CWReturn

SpecCW == InitCW /\ [][NextCW]_vars

\* the squared distance from the query point to waypoint k
CWDist(k) == distanceSq(x, y, At(maps_x, k), At(maps_y, k))

\* C6: for every non-empty polyline and every query point, at any distance,
\* ClosestWaypoint returns an index in [0, n-1] whose waypoint is at the least
\* distance from (x, y), and the lowest such index.
C6_ClosestIsNearest ==
    pc = "done" =>
        /\ ret \in 0 .. (Size(maps_x) - 1)
        /\ \A k \in 0 .. (Size(maps_x) - 1) :
             /\ ~SqLess(CWDist(k), CWDist(ret))
             /\ (k < ret => SqLess(CWDist(ret), CWDist(k)))

-----------------------------------------------------------------------------
(* SpecNW: a call of NextWaypoint *)

NWPolylines ==
    {Straight(0, 0, dir, 3, n) : dir \in 0..3, n \in 2..MaxWp}
    \cup {Square(0, 0, 3)}

NWCoord == -2 .. 4

\* compass headings from -2*pi to 3*pi: [-pi, pi], a yaw in [0, 2*pi), beyond
NWThetas == {2 * k : k \in -8 .. 12}

InitNW ==
    /\ \E p \in NWPolylines : maps_x = p.x /\ maps_y = p.y /\ maps_s = p.s
    /\ x \in NWCoord /\ y \in NWCoord
    /\ \E th \in NWThetas : theta = Num(th)
    /\ pc = "nw_call"
    /\ NoClosest /\ NoFrenet /\ NoScan /\ NoSafe /\ NoResult

NWCall ==
    /\ pc = "nw_call"
    /\ ret' = NextWaypoint(x, y, theta, maps_x, maps_y)
    /\ pc' = "done"
    /\ UNCHANGED <<mapVars, cartVars, frenetVars, closestVars, scanVars,
                   safeVars, ret2>>

NextNW == NWCall

SpecNW == InitNW /\ [][NextNW]_vars

\* the least index among the waypoints nearest to (x, y)
NWNearest ==
    CHOOSE c \in 0 .. (Size(maps_x) - 1) :
        \A k \in 0 .. (Size(maps_x) - 1) :
            /\ ~SqLess(CWDist(k), CWDist(c))
            /\ (k < c => SqLess(CWDist(c), CWDist(k)))

\* the minimal angular difference of two angles, in [0, pi]
AngularDifference(a, b) ==
    LET m == (a - b) % (2 * pi) IN IF m > pi THEN 2 * pi - m ELSE m

\* C7: for every polyline of at least 2 points and every heading theta, also
\* outside [-pi, pi], NextWaypoint returns the closest waypoint's index c when
\* the minimal angular difference between theta and the direction to that
\* waypoint is at most 90 degrees and (c + 1) mod n when it is more, so the
\* result is in [0, n-1].
C7_NextByMinimalAngle ==
    pc = "done" =>
        LET c == NWNearest
            heading == atan2(At(maps_y, c) - y, At(maps_x, c) - x)
        IN  /\ ret \in 0 .. (Size(maps_x) - 1)
            /\ ret = IF AngularDifference(theta.v, heading) <= pi \div 2
                     THEN c ELSE (c + 1) % Size(maps_x)

-----------------------------------------------------------------------------
(* SpecXY: a call of getXY, one evaluation of the while condition per step *)

XYPolylines ==
    {Straight(10, 20, dir, 3, n) : dir \in 0..3, n \in 2..MaxWp}
    \cup {Square(10, 20, 3)}

\* s from 0 to a little beyond the last arc length
XYArcs(p) == 0 .. (At(p.s, Size(p.s) - 1) + 2)

XYOffsets == {-1, 0, 2}

InitXY ==
    /\ \E p \in XYPolylines :
         /\ maps_x = p.x /\ maps_y = p.y /\ maps_s = p.s
         /\ s \in XYArcs(p)
    /\ d \in XYOffsets
    /\ pc = "xy_scan"
    /\ NoCartesian /\ NoClosest /\ NoScan /\ NoSafe /\ NoResult

\* while (s > maps_s[prev_wp+1] && ...) ++prev_wp;  the condition holds
XYScanStep ==
    /\ pc = "xy_scan"
    /\ XYScanCond(s, prev_wp, maps_s)
    /\ reads' = reads \cup {prev_wp + 1}
    /\ prev_wp' = prev_wp + 1
    /\ UNCHANGED <<mapVars, pc, cartVars, frenetVars, closestVars, safeVars,
                   ret, ret2>>

\* the condition fails and the loop ends; a read of maps_s[size] may crash
XYScanExit ==
    /\ pc = "xy_scan"
    /\ ~XYScanCond(s, prev_wp, maps_s)
    /\ reads' = reads \cup {prev_wp + 1}
    /\ \/ pc' = "xy_compute"
       \/ ~InRange(prev_wp + 1, maps_s) /\ pc' = "crashed"
    /\ UNCHANGED <<mapVars, cartVars, frenetVars, closestVars, prev_wp,
                   safeVars, ret, ret2>>

\* helpers.h:141-156; reads at prev_wp = -1 are undefined and may crash
XYCompute ==
    /\ pc = "xy_compute"
    /\ reads' = reads \cup XYPointReads(prev_wp, maps_x)
    /\ \/ /\ ret' \in XYPoints(s, d, prev_wp, maps_s, maps_x, maps_y)
          /\ pc' = "done"
       \/ /\ ~InRange(prev_wp, maps_x)
          /\ pc' = "crashed"
          /\ ret' = ret
    /\ UNCHANGED <<mapVars, cartVars, frenetVars, closestVars, prev_wp,
                   safeVars, ret2>>

NextXY == XYScanStep \/ XYScanExit \/ XYCompute

SpecXY == InitXY /\ [][NextXY]_vars

\* the last waypoint index whose arc length is <= s
XYLastAtMost(fs, ms) ==
    CHOOSE k \in 0 .. (Size(ms) - 1) :
        /\ At(ms, k) <= fs
        /\ \A j \in 0 .. (Size(ms) - 1) : At(ms, j) <= fs => j <= k

\* C8: for every s within the arc-length range, getXY selects as prev the last
\* waypoint index whose arc length is <= s (s = maps_s[k] selects k), and
\* returns waypoint[prev] advanced by s - maps_s[prev] along the segment to
\* (prev + 1) mod n and offset by d along heading - 90 degrees.
C8_PrevIsLastAtMost ==
    (pc = "done" /\ At(maps_s, 0) <= s /\ s <= At(maps_s, Size(maps_s) - 1)) =>
        LET k == XYLastAtMost(s, maps_s)
        IN  /\ prev_wp = k
            /\ ret = XYPoint(s, d, k, maps_s, maps_x, maps_y)

\* C10: for every s, also s <= maps_s[0] and s beyond the last arc length,
\* every array read of getXY uses an index in [0, n-1].
C10_ReadsInBounds ==
    \A k \in reads : InRange(k, maps_s)

-----------------------------------------------------------------------------
(* Straight polylines around the reference point (1000, 2000) *)

\* where the first waypoint lies relative to the reference point
RefOffsets == -2 .. 2

\* uniform spacing of the waypoints
Spacing == 2

RefPolylines ==
    {Straight(center_ref_x + ox, center_ref_y + oy, dir, Spacing, n) :
        ox \in RefOffsets, oy \in RefOffsets, dir \in 0..3, n \in 2..MaxWp}

\* the direction (0..3) a straight polyline runs in, and its heading
DirOf(mx, my) ==
    CHOOSE dir \in 0..3 :
        /\ At(mx, 1) - At(mx, 0) = Spacing * cos(4 * dir)
        /\ At(my, 1) - At(my, 0) = Spacing * sin(4 * dir)

HeadingOf(mx, my) == atan2(At(my, 1) - At(my, 0), At(mx, 1) - At(mx, 0))

\* the point at arc length t on the line, w to the left of it (w < 0: right)
Beside(mx, my, t, w) ==
    LET h == 4 * DirOf(mx, my)
    IN  <<At(mx, 0) + t * cos(h) + w * cos(h + 4),
          At(my, 0) + t * sin(h) + w * sin(h + 4)>>

LastArc(ms) == At(ms, Size(ms) - 1)

-----------------------------------------------------------------------------
(* SpecRT: getFrenet then getXY, and getXY then getFrenet *)

RTOffsets == -1 .. 1

InitRT ==
    /\ \E p \in RefPolylines :
         /\ maps_x = p.x /\ maps_y = p.y /\ maps_s = p.s
         /\ theta = Num(HeadingOf(p.x, p.y))
         /\ \E t \in 0 .. LastArc(p.s), w \in RTOffsets :
              \/ /\ pc = "rt_xy"
                 /\ x = Beside(p.x, p.y, t, w)[1]
                 /\ y = Beside(p.x, p.y, t, w)[2]
                 /\ NoFrenet
              \/ /\ pc = "rt_sd"
                 /\ s = t /\ d = w
                 /\ x = 0 /\ y = 0
    /\ NoClosest /\ NoScan /\ NoSafe /\ NoResult

RTToFrenet ==
    /\ pc = "rt_xy"
    /\ ret' = getFrenet(x, y, theta, maps_x, maps_y)
    /\ pc' = "rt_xy_back"
    /\ UNCHANGED <<mapVars, cartVars, frenetVars, closestVars, scanVars,
                   safeVars, ret2>>

RTBackToXY ==
    /\ pc = "rt_xy_back"
    /\ \/ /\ ret2' \in getXY(ret[1], ret[2], maps_s, maps_x, maps_y)
          /\ pc' = "done_xy"
       \/ /\ XYOutOfBounds(ret[1], maps_s, maps_x)
          /\ pc' = "crashed"
          /\ ret2' = ret2
    /\ UNCHANGED <<mapVars, cartVars, frenetVars, closestVars, scanVars,
                   safeVars, ret>>

RTToXY ==
    /\ pc = "rt_sd"
    /\ \/ /\ ret' \in getXY(s, d, maps_s, maps_x, maps_y)
          /\ pc' = "rt_sd_back"
       \/ /\ XYOutOfBounds(s, maps_s, maps_x)
          /\ pc' = "crashed"
          /\ ret' = ret
    /\ UNCHANGED <<mapVars, cartVars, frenetVars, closestVars, scanVars,
                   safeVars, ret2>>

RTBackToFrenet ==
    /\ pc = "rt_sd_back"
    /\ ret2' = getFrenet(ret[1], ret[2], theta, maps_x, maps_y)
    /\ pc' = "done_sd"
    /\ UNCHANGED <<mapVars, cartVars, frenetVars, closestVars, scanVars,
                   safeVars, ret>>

NextRT == RTToFrenet \/ RTBackToXY \/ RTToXY \/ RTBackToFrenet

SpecRT == InitRT /\ [][NextRT]_vars

\* C4: on a straight, uniformly spaced polyline, wherever it lies relative to
\* (1000, 2000) and whichever way it runs, getXY(getFrenet(x, y, theta)) is
\* (x, y) for theta along the line, and getFrenet(getXY(s, d), theta) is (s, d)
\* for every s in the arc-length range, s = 0 and waypoint arc lengths included.
C4_RoundTrip ==
    /\ pc = "done_xy" => ret2 = <<x, y>>
    /\ pc = "done_sd" => ret2 = <<s, d>>

-----------------------------------------------------------------------------
(* SpecSign: getFrenet of the two points left and right of a foot point *)

\* the perpendicular offsets of the two points
SignOffsets == {1, 2}

InitSign ==
    /\ \E p \in RefPolylines :
         /\ maps_x = p.x /\ maps_y = p.y /\ maps_s = p.s
         /\ theta = Num(HeadingOf(p.x, p.y))
         /\ s \in 0 .. LastArc(p.s)
    /\ d \in SignOffsets
    /\ x = Beside(maps_x, maps_y, s, 0)[1]
    /\ y = Beside(maps_x, maps_y, s, 0)[2]
    /\ pc = "sign_left"
    /\ NoClosest /\ NoScan /\ NoSafe /\ NoResult

\* getFrenet of the point d to the left of the foot (x, y)
SignLeft ==
    /\ pc = "sign_left"
    /\ LET p == Beside(maps_x, maps_y, s, d)
       IN  ret' = getFrenet(p[1], p[2], theta, maps_x, maps_y)
    /\ pc' = "sign_right"
    /\ UNCHANGED <<mapVars, cartVars, frenetVars, closestVars, scanVars,
                   safeVars, ret2>>

\* getFrenet of the point d to the right of the foot (x, y)
SignRight ==
    /\ pc = "sign_right"
    /\ LET p == Beside(maps_x, maps_y, s, -d)
       IN  ret2' = getFrenet(p[1], p[2], theta, maps_x, maps_y)
    /\ pc' = "done"
    /\ UNCHANGED <<mapVars, cartVars, frenetVars, closestVars, scanVars,
                   safeVars, ret>>

NextSign == SignLeft \/ SignRight

SpecSign == InitSign /\ [][NextSign]_vars

\* the distance from the reference point to the polyline's line
RefDistance ==
    IF At(maps_y, 0) = At(maps_y, 1)
    THEN Abs(center_ref_y - At(maps_y, 0))
    ELSE Abs(center_ref_x - At(maps_x, 0))

\* the two d values have opposite sign and the magnitude of the offset
SignOpposite ==
    /\ ret[2] * ret2[2] < 0
    /\ Abs(ret[2]) = d
    /\ Abs(ret2[2]) = d

\* C5 as stated: the points at offset +1 and -1 of a foot point get d values
\* of opposite sign and magnitude 1, for every position of the segment
\* relative to (1000, 2000), lines through the reference point included.
C5_SignAnywhere ==
    (pc = "done" /\ d = 1) => SignOpposite

\* C5 as amended: the points at offset +w and -w get d values of opposite sign
\* and magnitude w whenever the segment's line is at least w/2 away from
\* (1000, 2000); for w = 1, at least half a unit away.
C5_SignAwayFromReference ==
    (pc = "done" /\ 2 * RefDistance >= d) => SignOpposite

\* both points measured on a line exactly half the offset from the reference
C5_Witness ==
    pc = "done" /\ 2 * RefDistance = d /\ SignOpposite

-----------------------------------------------------------------------------
(* getAbsSpeed, getTheta and safeToChangeLane, helpers.h:159-161, 206-281 *)

getAbsSpeed(vx, vy) == Sqrt(vx * vx + vy * vy)

Neg(a) == IF a.nan THEN NaN ELSE Num(-a.v)

\* get heading in radians [-PI ~ PI]
getTheta(vx, vy, speed) ==
    IF vy >= 0 THEN acos(vx, speed) ELSE Neg(acos(vx, speed))

\* const double t = 3.0, in s
t_window == 3
\* const double car_length = 4.0, in tenths of a metre
car_length == 40
\* the 5.0 and the 22.3 of safety_distance, in tenths
safety_gap == 50
free_flow_speed == 223

\* safety_distance = car_length + 5.0 + abs(22.3 - car_speed)*1.0, in tenths
SafetyDistance(speed) == car_length + safety_gap + Abs(free_flow_speed - speed)

\* if (abs(distance) <= safety_distance): distance in metres, margin in tenths
TooClose(rel_distance, safety_distance) ==
    10 * Abs(rel_distance) <= safety_distance

\* the quotient time_to_collision of helpers.h:250-257, numerator and
\* denominator in tenths
TimeToCollision(rel_distance, relative_speed) ==
    IF rel_distance >= 0
    THEN [num |-> 10 * rel_distance - car_length, den |-> relative_speed]
    ELSE [num |-> 10 * rel_distance + car_length, den |-> relative_speed]

\* q >= 0 for the double q.num / q.den (-0.0 >= 0 holds; NaN >= 0 does not)
QuotNonNegative(q) ==
    CASE q.den > 0 -> q.num >= 0
      [] q.den < 0 -> q.num <= 0
      [] q.den = 0 -> q.num > 0

\* q <= bound for the double q.num / q.den
QuotAtMost(q, bound) ==
    CASE q.den > 0 -> q.num <= bound * q.den
      [] q.den < 0 -> q.num >= bound * q.den
      [] q.den = 0 -> q.num < 0

\* WillCollide without the lower bound of the window
WillCollideNoLower(q) == QuotAtMost(q, t_window)

\* WillCollide with a zero relative speed taken as a collision now
WillCollideZeroGuard(q) ==
    IF q.den = 0 THEN TRUE
    ELSE QuotNonNegative(q) /\ QuotAtMost(q, t_window)

\* if (time_to_collision >= 0 && time_to_collision <= t), helpers.h:265
WillCollide(q) == QuotNonNegative(q) /\ QuotAtMost(q, t_window)

-----------------------------------------------------------------------------
(* SpecSafe: a call of safeToChangeLane, one obstacle per step *)

\* the course: three waypoints 30 m apart running in +x, the reference point
\* on its left
SafeCourse == Straight(center_ref_x - 30, center_ref_y - 10, 0, 30, 3)

\* the obstacles (the x, y, vx, vy of a sensor-fusion row): on the course or
\* 4 m to its right; stopped, slower, as fast as, faster than the ego vehicle,
\* or oncoming
SafeCarPos == {<<5, 0>>, <<29, -4>>, <<42, 0>>, <<58, -4>>}
SafeCarV == {<<0, 0>>, <<10, 0>>, <<22, 0>>, <<30, 0>>, <<-22, 0>>}
SafeCars ==
    {[x |-> center_ref_x - 30 + p[1], y |-> center_ref_y - 10 + p[2],
      vx |-> v[1], vy |-> v[2]] : p \in SafeCarPos, v \in SafeCarV}

\* ego arc length (m), ego speed (tenths of m/s), horizon argument (s)
SafeEgoS == {20, 45}
SafeEgoSpeed == {150, 220, 223}
SafeHorizons == {3, 5}

InitSafe ==
    /\ maps_x = SafeCourse.x /\ maps_y = SafeCourse.y /\ maps_s = SafeCourse.s
    /\ lane_sensor_fusion \in UNION {[1..n -> SafeCars] : n \in 0..MaxCars}
    /\ car_s \in SafeEgoS
    /\ car_speed \in SafeEgoSpeed
    /\ delta_t \in SafeHorizons
    /\ safe_to_change_lane = TRUE
    /\ time_to_collision = [num |-> 0, den |-> 1]
    /\ pc = "safe_loop"
    /\ NoCartesian /\ NoFrenet /\ NoClosest /\ NoScan /\ NoResult

\* the heading and the arc length the loop body derives for an obstacle
CarTheta(car) == getTheta(car.vx, car.vy, getAbsSpeed(car.vx, car.vy))
CarS(car) == getFrenet(car.x, car.y, CarTheta(car), maps_x, maps_y)[1]

\* helpers.h:243-269 for an obstacle at rel_distance (m) and relative_speed
\* (tenths of m/s)
SafeJudge(rel_distance, relative_speed) ==
    IF TooClose(rel_distance, SafetyDistance(car_speed))
    THEN /\ ret' = FALSE
         /\ pc' = "done"
         /\ UNCHANGED <<i, safe_to_change_lane, time_to_collision>>
    ELSE /\ time_to_collision' = TimeToCollision(rel_distance, relative_speed)
         /\ safe_to_change_lane' =
              IF WillCollide(TimeToCollision(rel_distance, relative_speed))
              THEN FALSE ELSE safe_to_change_lane
         /\ i' = i + 1
         /\ UNCHANGED <<pc, ret>>

\* helpers.h:231-241 for the obstacle car, then the rest of the loop body
SafeBody(car) ==
    /\ theta' = CarTheta(car)
    /\ SafeJudge(CarS(car) - car_s,
                 car_speed - 10 * getAbsSpeed(car.vx, car.vy))

\* the body of the for loop at helpers.h:229-275 for obstacle i
SafeCheckCar ==
    /\ pc = "safe_loop"
    /\ i < Len(lane_sensor_fusion)
    /\ SafeBody(lane_sensor_fusion[i + 1])
    /\ UNCHANGED <<mapVars, x, y, frenetVars, closestLen, closestWaypoint,
                   scanVars, safeArgs, ret2>>

\* return safe_to_change_lane;
SafeReturn ==
    /\ pc = "safe_loop"
    /\ i >= Len(lane_sensor_fusion)
    /\ ret' = safe_to_change_lane
    /\ pc' = "done"
    /\ UNCHANGED <<mapVars, cartVars, frenetVars, closestVars, scanVars,
                   safeVars, ret2>>

NextSafe == SafeCheckCar \/ SafeReturn

SpecSafe == InitSafe /\ [][NextSafe]_vars

(* The claims' own terms, per obstacle k (1-based) *)

CarDist(k) == CarS(lane_sensor_fusion[k]) - car_s

CarRelSpeed(k) ==
    LET car == lane_sensor_fusion[k]
    IN  car_speed - 10 * getAbsSpeed(car.vx, car.vy)

\* |obstacle_s - ego_s| <= 4.0 + 5.0 + |22.3 - ego_speed|
InsideMargin(k) == 10 * Abs(CarDist(k)) <= 90 + Abs(223 - car_speed)

\* the real quotient ttc lies in [0, h]; no ttc without a closing speed
TtcWithin(k, h) ==
    LET num == IF CarDist(k) >= 0 THEN 10 * CarDist(k) - 40
               ELSE 10 * CarDist(k) + 40
        rel == CarRelSpeed(k)
    IN  \/ rel > 0 /\ 0 <= num /\ num <= h * rel
        \/ rel < 0 /\ num <= 0 /\ h * rel <= num

Cars == 1 .. Len(lane_sensor_fusion)

\* C1: with the 3.0 s horizon, safeToChangeLane returns false if and only if
\* some obstacle is inside the safety margin or has a time-to-collision in
\* [0, 3.0]; true otherwise, the empty list included.
C1_VerdictIffDanger ==
    pc = "done" =>
        (ret = FALSE <=> \E k \in Cars : InsideMargin(k) \/ TtcWithin(k, 3))

\* a list of two obstacles, none inside the margin, refused for a ttc alone
C1_Witness ==
    /\ pc = "done" /\ ret = FALSE
    /\ Len(lane_sensor_fusion) = 2
    /\ \A k \in Cars : ~InsideMargin(k)
    /\ ~TtcWithin(1, 3) /\ TtcWithin(2, 3)

\* C2: an obstacle outside the margin whose speed equals the ego speed gets
\* an infinite time-to-collision (not NaN), leaves the verdict as it was and
\* does not end the check, ahead of the ego vehicle or behind it.
C2_ZeroRelativeSpeedIsSafe ==
    [][(/\ pc = "safe_loop"
        /\ i < Len(lane_sensor_fusion)
        /\ CarRelSpeed(i + 1) = 0
        /\ ~InsideMargin(i + 1))
       => (/\ pc' = "safe_loop"
           /\ safe_to_change_lane' = safe_to_change_lane
           /\ time_to_collision'.den = 0
           /\ time_to_collision'.num # 0)]_vars

\* two such obstacles checked, one ahead and one behind, verdict still true
C2_Witness ==
    /\ pc = "safe_loop" /\ i = 2
    /\ CarRelSpeed(1) = 0 /\ CarRelSpeed(2) = 0
    /\ ~InsideMargin(1) /\ ~InsideMargin(2)
    /\ CarDist(1) > 0 /\ CarDist(2) < 0
    /\ time_to_collision.den = 0
    /\ safe_to_change_lane

\* C3: the heading derived for an obstacle, one with vx = vy = 0 included, is
\* a defined value: no NaN heading is passed on to getFrenet.
C3_HeadingDefined == ~theta.nan

\* C9: the horizon argument delta_t is the window applied: with no obstacle
\* inside the margin the result is false exactly when some obstacle has a
\* time-to-collision in [0, delta_t].
C9_HorizonArgumentApplied ==
    (pc = "done" /\ \A k \in Cars : ~InsideMargin(k)) =>
        (ret = FALSE <=> \E k \in Cars : TtcWithin(k, delta_t))

====
